---- MODULE Spec2Model ----
(***************************************************************************)
(* Citation / contest lifecycle of the e-citation backend.                 *)
(*                                                                         *)
(* The model keeps the three collections the lifecycle works on            *)
(* (violations, citations, contests), a clock, and the response of the     *)
(* last request.  Every request handler is one action; a handler that      *)
(* rejects its request changes nothing but the recorded response.          *)
(* Descriptive fields (names, plate numbers, notes, images, evidence) are  *)
(* not part of the state; every document is taken to carry them.           *)
(* A handler is one step where requests are served one at a time; where    *)
(* requests overlap, a handler is one step per database round trip, and    *)
(* calls holds what each request in flight has read so far.                *)
(***************************************************************************)
EXTENDS Integers, Sequences, FiniteSets, TLC

VARIABLES violations, citations, contests, now, last, calls

vars == <<violations, citations, contests, now, last, calls>>

(***************************************************************************)
(* Bounds of the model.                                                    *)
(***************************************************************************)
MaxIssued == 4
MaxTime == 2
MaxPaid == 2250
MaxCited == 3

Drivers == {"d1", "d2"}
Admins == {"a1"}
Reasons == {"r1", "r2"}
VehicleTypes == {"PRIVATE", "FOR_HIRE"}
Payments == {750}
DueDates == {1, 2}
NoDate == -1
Nobody == "nobody"
Callers == {"p1", "p2"}

(* a caller with no request in flight *)
Idle == [pc |-> "idle"]

(***************************************************************************)
(* enum CitationStatus, enum ContestStatus                                 *)
(***************************************************************************)
CitationStatus ==
  {"PENDING", "PAID", "PARTIALLY_PAID", "OVERDUE", "CONTESTED", "DISMISSED", "VOID"}

ContestStatus == {"SUBMITTED", "UNDER_REVIEW", "APPROVED", "REJECTED", "WITHDRAWN"}

(* default due date of createCitation: 15 days after issue *)
DefaultDueDays == 15

(***************************************************************************)
(* The violation catalog: the first progressive and the first fixed rule   *)
(* of the seed data (dotcJao2014Violations, codes "1h" and "1i"), with the *)
(* driver's fine per vehicle type.  A tier that a schedule leaves          *)
(* undefined is 0 (falsy, as undefined is).                                *)
(***************************************************************************)
Tiers(a, b, c, d) ==
  [firstOffense |-> a, secondOffense |-> b, thirdOffense |-> c, subsequentOffense |-> d]

NoTiers == Tiers(0, 0, 0, 0)

ProgressiveRule ==
  [code |-> "1h", violationGroupId |-> "g1", version |-> 1,
   fineStructure |-> "PROGRESSIVE",
   fixedFine |-> [PRIVATE |-> 0, FOR_HIRE |-> 0],
   progressiveFine |-> [PRIVATE |-> Tiers(1500, 3000, 5000, 10000),
                        FOR_HIRE |-> NoTiers],
   isActive |-> TRUE, supersededBy |-> 0, effectiveUntil |-> NoDate]

FixedRule ==
  [code |-> "1i", violationGroupId |-> "g2", version |-> 1,
   fineStructure |-> "FIXED",
   fixedFine |-> [PRIVATE |-> 0, FOR_HIRE |-> 1000],
   progressiveFine |-> [PRIVATE |-> NoTiers, FOR_HIRE |-> NoTiers],
   isActive |-> TRUE, supersededBy |-> 0, effectiveUntil |-> NoDate]

SeedCatalog == <<ProgressiveRule, FixedRule>>

(***************************************************************************)
(* Helpers on sequences.                                                   *)
(***************************************************************************)
RECURSIVE SumFines(_)
SumFines(lines) ==
  IF lines = <<>> THEN 0 ELSE Head(lines).fineAmount + SumFines(Tail(lines))

RECURSIVE CountLines(_, _)
CountLines(lines, vid) ==
  IF lines = <<>> THEN 0
  ELSE (IF Head(lines).violationId = vid THEN 1 ELSE 0) + CountLines(Tail(lines), vid)

Response(op, id, code) == [op |-> op, code |-> code]

(***************************************************************************)
(* CitationSchema: validators run by save() before the pre-save hook       *)
(* (totalAmount, amountPaid, amountDue all have min: 0).                   *)
(***************************************************************************)
CitationValid(c) ==
  /\ c.totalAmount >= 0
  /\ c.amountPaid >= 0
  /\ c.amountDue >= 0

(***************************************************************************)
(* CitationSchema.pre('save'): recompute the amounts and the status.       *)
(***************************************************************************)
(* a hook that derives the status from the amounts only for a citation    *)
(* that is still PENDING                                                   *)
StatusAfterPayment_pendingOnly(status, paid, total) ==
  IF status # "PENDING" THEN status
  ELSE IF paid >= total THEN "PAID"
  ELSE IF paid > 0 THEN "PARTIALLY_PAID"
  ELSE status

StatusAfterPayment(status, paid, total) ==
  IF paid >= total /\ status = "PENDING" THEN "PAID"
  ELSE IF paid > 0 /\ paid < total THEN "PARTIALLY_PAID"
  ELSE status

(* a hook that leaves the due date out of the status *)
StatusAfterDueCheck_skip(status, dueDate, t) == status

StatusAfterDueCheck(status, dueDate, t) ==
  IF dueDate < t /\ status = "PENDING" THEN "OVERDUE" ELSE status

CitationPreSave(c, t) ==
  LET total == IF Len(c.violations) > 0 THEN SumFines(c.violations) ELSE c.totalAmount
      s1 == StatusAfterPayment(c.status, c.amountPaid, total)
      s2 == StatusAfterDueCheck(s1, c.dueDate, t)
  IN [c EXCEPT !.totalAmount = total,
               !.amountDue = total - c.amountPaid,
               !.status = s2]

(***************************************************************************)
(* Init: empty citation and contest collections, the seeded catalog.       *)
(***************************************************************************)
Init ==
  /\ violations = SeedCatalog
  /\ citations = <<>>
  /\ contests = <<>>
  /\ now = 0
  /\ last = Response("none", 0, 0)
  /\ calls = [p \in Callers |-> Idle]

(***************************************************************************)
(* createCitation: offense history, fine per violation, totals, save.      *)
(***************************************************************************)
CountedStatuses == {"PAID", "PENDING", "OVERDUE", "PARTIALLY_PAID"}

(* a history query without the isVoid filter *)
RECURSIVE PriorOffenses_withVoid(_, _, _)
PriorOffenses_withVoid(cs, driverId, vid) ==
  IF cs = <<>> THEN 0
  ELSE (IF /\ Head(cs).driverId = driverId
           /\ Head(cs).status \in CountedStatuses
        THEN CountLines(Head(cs).violations, vid) ELSE 0)
       + PriorOffenses_withVoid(Tail(cs), driverId, vid)

RECURSIVE PriorOffenses(_, _, _)
PriorOffenses(cs, driverId, vid) ==
  IF cs = <<>> THEN 0
  ELSE (IF /\ Head(cs).driverId = driverId
           /\ Head(cs).status \in CountedStatuses
           /\ Head(cs).isVoid = FALSE
        THEN CountLines(Head(cs).violations, vid) ELSE 0)
       + PriorOffenses(Tail(cs), driverId, vid)

(* a count that leaves the current offense out *)
OffenseCount_prior(cs, driverId, vid) == PriorOffenses(cs, driverId, vid)

OffenseCount(cs, driverId, vid) == PriorOffenses(cs, driverId, vid) + 1

ProgressiveFineAmount(fineSchedule, offenseCount) ==
  IF offenseCount = 1 THEN fineSchedule.firstOffense
  ELSE IF offenseCount = 2 /\ fineSchedule.secondOffense # 0 THEN fineSchedule.secondOffense
  ELSE IF offenseCount = 3 /\ fineSchedule.thirdOffense # 0 THEN fineSchedule.thirdOffense
  ELSE IF fineSchedule.subsequentOffense # 0 THEN fineSchedule.subsequentOffense
  ELSE IF fineSchedule.thirdOffense # 0 THEN fineSchedule.thirdOffense
  ELSE IF fineSchedule.secondOffense # 0 THEN fineSchedule.secondOffense
  ELSE fineSchedule.firstOffense

ViolationItem(cs, vs, driverId, vehicleType, vid) ==
  LET violation == vs[vid]
      offenseCount == IF violation.fineStructure = "PROGRESSIVE"
                      THEN OffenseCount(cs, driverId, vid) ELSE 1
      fineAmount == IF violation.fineStructure = "FIXED"
                    THEN violation.fixedFine[vehicleType]
                    ELSE ProgressiveFineAmount(violation.progressiveFine[vehicleType],
                                               offenseCount)
  IN [violationId |-> vid, code |-> violation.code,
      fineAmount |-> fineAmount, offenseCount |-> offenseCount]

(* the items of the selected violations, in catalog order *)
RECURSIVE ViolationItems(_, _, _, _, _, _)
ViolationItems(cs, vs, driverId, vehicleType, ids, from) ==
  IF from > Len(vs) THEN <<>>
  ELSE (IF from \in ids THEN <<ViolationItem(cs, vs, driverId, vehicleType, from)>>
        ELSE <<>>)
       \o ViolationItems(cs, vs, driverId, vehicleType, ids, from + 1)

(* generateCitationNo: highest stored number plus one *)
RECURSIVE MaxCitationNo(_)
MaxCitationNo(cs) ==
  IF cs = <<>> THEN 0
  ELSE LET m == MaxCitationNo(Tail(cs))
       IN IF Head(cs).citationNo > m THEN Head(cs).citationNo ELSE m

generateCitationNo(cs) == MaxCitationNo(cs) + 1

(* new Citation({...}) *)
CitationDoc(citationNo, driverId, items, dueDate, t) ==
  LET totalAmount == SumFines(items)
  IN [citationNo |-> citationNo,
      driverId |-> driverId,
      violations |-> items,
      totalAmount |-> totalAmount,
      amountPaid |-> 0,
      amountDue |-> totalAmount,
      status |-> "PENDING",
      dueDate |-> IF dueDate = NoDate THEN t + DefaultDueDays ELSE dueDate,
      isVoid |-> FALSE,
      voidReason |-> "",
      voidedBy |-> Nobody,
      voidedAt |-> NoDate]

NewCitation(cs, vs, driverId, vehicleType, ids, dueDate, t) ==
  CitationDoc(generateCitationNo(cs), driverId,
              ViolationItems(cs, vs, driverId, vehicleType, ids, 1), dueDate, t)

createCitation(driverId, vehicleType, ids, dueDate) ==
  /\ ids \subseteq DOMAIN violations
  /\ LET c == NewCitation(citations, violations, driverId, vehicleType, ids, dueDate, now)
     IN IF ids = {} \/ \E i \in ids : ~violations[i].isActive
        THEN /\ citations' = citations
             /\ last' = Response("createCitation", 0, 400)
        ELSE IF ~CitationValid(c)
        THEN /\ citations' = citations
             /\ last' = Response("createCitation", 0, 500)
        ELSE /\ citations' = Append(citations, CitationPreSave(c, now))
             /\ last' = Response("createCitation", Len(citations) + 1, 201)
  /\ UNCHANGED <<calls, violations, contests, now>>

(***************************************************************************)
(* createCitation, one step per round trip: the offense history is read,   *)
(* then the highest citation number, then the citation is inserted.  The   *)
(* unique index on citationNo rejects an insert whose number is stored.    *)
(***************************************************************************)
IssueCall(pc, driverId, items, citationNo, dueDate) ==
  [pc |-> pc, driverId |-> driverId, items |-> items,
   citationNo |-> citationNo, dueDate |-> dueDate]

NumberTaken(cs, citationNo) ==
  \E i \in DOMAIN cs : cs[i].citationNo = citationNo

issueRead(p, driverId, vehicleType, ids, dueDate) ==
  /\ calls[p] = Idle
  /\ ids \subseteq DOMAIN violations
  /\ IF ids = {} \/ \E i \in ids : ~violations[i].isActive
       THEN /\ calls' = calls
            /\ last' = Response("createCitation", 0, 400)
       ELSE /\ calls' = [calls EXCEPT ![p] =
                   IssueCall("number", driverId,
                             ViolationItems(citations, violations, driverId,
                                            vehicleType, ids, 1),
                             0, dueDate)]
            /\ last' = last
  /\ UNCHANGED <<violations, citations, contests, now>>

issueNumber(p) ==
  /\ calls[p].pc = "number"
  /\ calls' = [calls EXCEPT ![p] =
        IssueCall("save", @.driverId, @.items, generateCitationNo(citations),
                  @.dueDate)]
  /\ UNCHANGED <<violations, citations, contests, now, last>>

issueSave(p) ==
  /\ calls[p].pc = "save"
  /\ LET call == calls[p]
         c == CitationDoc(call.citationNo, call.driverId, call.items,
                          call.dueDate, now)
     IN IF ~CitationValid(c) \/ NumberTaken(citations, call.citationNo)
        THEN /\ citations' = citations
             /\ last' = Response("createCitation", 0, 500)
        ELSE /\ citations' = Append(citations, CitationPreSave(c, now))
             /\ last' = Response("createCitation", Len(citations) + 1, 201)
  /\ calls' = [calls EXCEPT ![p] = Idle]
  /\ UNCHANGED <<violations, contests, now>>

(***************************************************************************)
(* citation.save(): validation, then the pre-save hook, then the write.    *)
(***************************************************************************)
SaveCitation(cs, id, c, t) ==
  IF CitationValid(c) THEN [cs EXCEPT ![id] = CitationPreSave(c, t)] ELSE cs

(***************************************************************************)
(* addPayment: the payment is added to amountPaid and the citation saved;  *)
(* a dismissed or voided citation takes no payment.                        *)
(***************************************************************************)
addPayment(id, amount) ==
  /\ id \in DOMAIN citations
  /\ amount > 0
  /\ citations[id].amountPaid + amount <= MaxPaid
  /\ LET c == citations[id]
         paid == [c EXCEPT !.amountPaid = @ + amount]
     IN IF c.isVoid \/ c.status \in {"VOID", "DISMISSED"}
        THEN /\ citations' = citations
             /\ last' = Response("addPayment", id, 409)
        ELSE /\ citations' = SaveCitation(citations, id, paid, now)
             /\ last' = Response("addPayment", id, IF CitationValid(paid) THEN 200 ELSE 500)
  /\ UNCHANGED <<calls, violations, contests, now>>

(***************************************************************************)
(* markAsPaid                                                              *)
(***************************************************************************)
markAsPaid(id) ==
  /\ id \in DOMAIN citations
  /\ LET c == [citations[id] EXCEPT !.status = "PAID", !.amountDue = 0]
     IN /\ citations' = SaveCitation(citations, id, c, now)
        /\ last' = Response("markAsPaid", id, IF CitationValid(c) THEN 200 ELSE 500)
  /\ UNCHANGED <<calls, violations, contests, now>>

(***************************************************************************)
(* checkOverdue, updateStatus                                              *)
(***************************************************************************)
checkOverdue(c, t) ==
  c.dueDate < t /\ c.status \in {"PENDING", "PARTIALLY_PAID"}

updateStatus(id) ==
  /\ id \in DOMAIN citations
  /\ LET c0 == citations[id]
         over == checkOverdue(c0, now) /\ c0.status # "OVERDUE"
         d1 == [c0 EXCEPT !.status = "OVERDUE"]
         threw1 == over /\ ~CitationValid(d1)
         c1 == IF over /\ ~threw1 THEN CitationPreSave(d1, now) ELSE c0
         full == ~threw1 /\ c1.amountPaid >= c1.totalAmount /\ c1.status # "PAID"
         d2 == [c1 EXCEPT !.status = "PAID", !.amountDue = 0]
         c2 == IF full /\ CitationValid(d2) THEN CitationPreSave(d2, now) ELSE c1
     IN /\ citations' = [citations EXCEPT ![id] = c2]
        /\ last' = Response("updateStatus", id,
                            IF threw1 \/ (full /\ ~CitationValid(d2)) THEN 500 ELSE 200)
  /\ UNCHANGED <<calls, violations, contests, now>>

(***************************************************************************)
(* updateStatus, one step per save: the due-date check with its save, then *)
(* the payment check with its save, both on the document the request has   *)
(* loaded.                                                                 *)
(***************************************************************************)
StatusCall(pc, id, citation) == [pc |-> pc, id |-> id, citation |-> citation]

statusOverdue(p, id) ==
  /\ calls[p] = Idle
  /\ id \in DOMAIN citations
  /\ LET c0 == citations[id]
         over == checkOverdue(c0, now) /\ c0.status # "OVERDUE"
         d1 == [c0 EXCEPT !.status = "OVERDUE"]
         c1 == CitationPreSave(d1, now)
     IN IF ~over
        THEN /\ calls' = [calls EXCEPT ![p] = StatusCall("paid", id, c0)]
             /\ UNCHANGED <<citations, last>>
        ELSE IF ~CitationValid(d1)
        THEN /\ last' = Response("updateStatus", id, 500)
             /\ UNCHANGED <<citations, calls>>
        ELSE /\ citations' = [citations EXCEPT ![id] = c1]
             /\ calls' = [calls EXCEPT ![p] = StatusCall("paid", id, c1)]
             /\ last' = last
  /\ UNCHANGED <<violations, contests, now>>

statusPaid(p) ==
  /\ calls[p].pc = "paid"
  /\ LET id == calls[p].id
         c1 == calls[p].citation
         full == c1.amountPaid >= c1.totalAmount /\ c1.status # "PAID"
         d2 == [c1 EXCEPT !.status = "PAID", !.amountDue = 0]
         c2 == CitationPreSave(d2, now)
     IN /\ citations' =
             IF full /\ CitationValid(d2)
             THEN [citations EXCEPT ![id].status = c2.status,
                                    ![id].amountDue = c2.amountDue,
                                    ![id].totalAmount = c2.totalAmount]
             ELSE citations
        /\ last' = Response("updateStatus", id,
                            IF full /\ ~CitationValid(d2) THEN 500 ELSE 200)
  /\ calls' = [calls EXCEPT ![p] = Idle]
  /\ UNCHANGED <<violations, contests, now>>

(***************************************************************************)
(* guard of updateCitation and voidCitation: the citation is already void  *)
(***************************************************************************)
(* a handler that never takes a citation for void *)
AlreadyVoid_never(c) == FALSE

AlreadyVoid(c) == c.isVoid

(***************************************************************************)
(* updateCitation: only the due date is part of the state.                 *)
(***************************************************************************)
updateCitation(id, dueDate) ==
  /\ id \in DOMAIN citations
  /\ LET c0 == citations[id]
         c == IF dueDate = NoDate THEN c0 ELSE [c0 EXCEPT !.dueDate = dueDate]
     IN IF AlreadyVoid(c0)
        THEN /\ citations' = citations
             /\ last' = Response("updateCitation", id, 400)
        ELSE /\ citations' = SaveCitation(citations, id, c, now)
             /\ last' = Response("updateCitation", id, IF CitationValid(c) THEN 200 ELSE 500)
  /\ UNCHANGED <<calls, violations, contests, now>>

(***************************************************************************)
(* voidCitation (controller guard and helper)                              *)
(***************************************************************************)
VoidedCitation(c, reason, voidedBy, t) ==
  [c EXCEPT !.status = "VOID", !.isVoid = TRUE, !.voidReason = reason,
            !.voidedBy = voidedBy, !.voidedAt = t]

voidCitation(id, reason, voidedBy) ==
  /\ id \in DOMAIN citations
  /\ LET c0 == citations[id]
         c == VoidedCitation(c0, reason, voidedBy, now)
     IN IF AlreadyVoid(c0)
        THEN /\ citations' = citations
             /\ last' = Response("voidCitation", id, 400)
        ELSE /\ citations' = SaveCitation(citations, id, c, now)
             /\ last' = Response("voidCitation", id, IF CitationValid(c) THEN 200 ELSE 500)
  /\ UNCHANGED <<calls, violations, contests, now>>

(***************************************************************************)
(* contestCitation, resolveContest: the contest kept on the citation       *)
(* itself (PUT /api/citations/:id/contest, /resolve-contest).              *)
(***************************************************************************)
contestCitation(id) ==
  /\ id \in DOMAIN citations
  /\ LET c0 == citations[id]
         c == [c0 EXCEPT !.status = "CONTESTED"]
     IN IF c0.isVoid \/ c0.status \in {"CONTESTED", "PAID"}
        THEN /\ citations' = citations
             /\ last' = Response("contestCitation", id, 400)
        ELSE /\ citations' = SaveCitation(citations, id, c, now)
             /\ last' = Response("contestCitation", id, IF CitationValid(c) THEN 200 ELSE 500)
  /\ UNCHANGED <<calls, violations, contests, now>>

resolveContest(id, approve) ==
  /\ id \in DOMAIN citations
  /\ LET c0 == citations[id]
         c == [c0 EXCEPT !.status = IF approve THEN "DISMISSED"
                                    ELSE IF c0.amountPaid > 0 THEN "PARTIALLY_PAID"
                                    ELSE "PENDING"]
     IN IF c0.status # "CONTESTED"
        THEN /\ citations' = citations
             /\ last' = Response("resolveContest", id, 400)
        ELSE /\ citations' = SaveCitation(citations, id, c, now)
             /\ last' = Response("resolveContest", id, IF CitationValid(c) THEN 200 ELSE 500)
  /\ UNCHANGED <<calls, violations, contests, now>>

(* the clock *)
Tick ==
  /\ now < MaxTime
  /\ now' = now + 1
  /\ UNCHANGED <<calls, violations, citations, contests, last>>

(***************************************************************************)
(* The catalog handlers.  A rule is never edited in place: updateViolation *)
(* retires the version it is given and stores its successor               *)
(* (createNewVersion), deleteViolation retires a version without a        *)
(* successor (softDelete).  Every request carries the fine its            *)
(* fineStructure asks for, so ViolationSchema.pre('save') passes.         *)
(***************************************************************************)
MaxRules == 4

NoFine == [PRIVATE |-> 0, FOR_HIRE |-> 0]

(* request body of createViolation: the seed rule "R.A 10054", whose      *)
(* schedule stops at the second offense                                   *)
NewRules ==
  { [code |-> "R.A 10054", fineStructure |-> "PROGRESSIVE", fixedFine |-> NoFine,
     progressiveFine |-> [PRIVATE |-> Tiers(3000, 5000, 0, 0), FOR_HIRE |-> NoTiers]] }

(* request bodies of updateViolation *)
Updates ==
  { [progressiveFine |-> [PRIVATE |-> Tiers(1500, 0, 0, 10000), FOR_HIRE |-> NoTiers]],
    [fixedFine |-> [PRIVATE |-> 500, FOR_HIRE |-> 1000]] }

(* new mongoose.Types.ObjectId().toString(): an id no other group has *)
GroupId(n) == "g" \o ToString(n)

(* { ...doc, ...updates } *)
Spread(doc, updates) ==
  [f \in DOMAIN doc |-> IF f \in DOMAIN updates THEN updates[f] ELSE doc[f]]

createViolation(violationData) ==
  /\ Len(violations) < MaxRules
  /\ violations' = Append(violations,
       [code |-> violationData.code,
        violationGroupId |-> GroupId(Len(violations) + 1), version |-> 1,
        fineStructure |-> violationData.fineStructure,
        fixedFine |-> violationData.fixedFine,
        progressiveFine |-> violationData.progressiveFine,
        isActive |-> TRUE, supersededBy |-> 0, effectiveUntil |-> NoDate])
  /\ last' = Response("createViolation", Len(violations) + 1, 201)
  /\ UNCHANGED <<citations, contests, now, calls>>

(* a predecessor that is left as it was *)
Retired_not(v, t, by) == v

(* createNewVersion, first half: the current version is retired *)
Retired(v, t, by) ==
  [v EXCEPT !.isActive = FALSE, !.effectiveUntil = t, !.supersededBy = by]

(* createNewVersion, second half: the successor document *)
NewVersion(v, updates) ==
  [Spread([v EXCEPT !.version = v.version + 1], updates)
     EXCEPT !.violationGroupId = v.violationGroupId, !.supersededBy = 0,
            !.effectiveUntil = NoDate, !.isActive = TRUE]

createNewVersion(vs, id, updates, t) ==
  Append([vs EXCEPT ![id] = Retired(vs[id], t, Len(vs) + 1)],
         NewVersion(vs[id], updates))

(* an update that edits the rule where it stands and re-prices the lines   *)
(* issued under it                                                         *)
updateViolation_inPlace(id, updates) ==
  /\ id \in DOMAIN violations
  /\ violations' = [violations EXCEPT ![id] = Spread(@, updates)]
  /\ citations' =
       [i \in DOMAIN citations |->
          [citations[i] EXCEPT !.violations =
             [j \in DOMAIN @ |->
                IF @[j].violationId = id THEN [@[j] EXCEPT !.fineAmount = 0] ELSE @[j]]]]
  /\ last' = Response("updateViolation", id, 200)
  /\ UNCHANGED <<contests, now, calls>>

updateViolation(id, updates) ==
  /\ Len(violations) < MaxRules
  /\ IF id \notin DOMAIN violations
       THEN /\ last' = Response("updateViolation", id, 404)
            /\ UNCHANGED violations
       ELSE IF ~violations[id].isActive
         THEN /\ last' = Response("updateViolation", id, 400)
              /\ UNCHANGED violations
         ELSE /\ violations' = createNewVersion(violations, id, updates, now)
              /\ last' = Response("updateViolation", id, 200)
  /\ UNCHANGED <<citations, contests, now, calls>>

softDelete(v, t) == [v EXCEPT !.isActive = FALSE, !.effectiveUntil = t]

deleteViolation(id) ==
  /\ IF id \notin DOMAIN violations
       THEN /\ last' = Response("deleteViolation", id, 404)
            /\ UNCHANGED violations
       ELSE IF ~violations[id].isActive
         THEN /\ last' = Response("deleteViolation", id, 400)
              /\ UNCHANGED violations
         ELSE /\ violations' = [violations EXCEPT ![id] = softDelete(violations[id], now)]
              /\ last' = Response("deleteViolation", id, 200)
  /\ UNCHANGED <<citations, contests, now, calls>>

(***************************************************************************)
(* updateViolation, one step per write.  createNewVersion builds the       *)
(* successor from the document it has read, saves the predecessor          *)
(* (this.save()) and then saves the successor (newVersion.save()); the two *)
(* saves are separate writes, and the process can stop after either.       *)
(* A document's id is its position in the collection, so a request starts  *)
(* only while no other request holds a position for its successor.         *)
(***************************************************************************)
VersionCall(pc, id, updates, doc) ==
  [pc |-> pc, id |-> id, updates |-> updates, doc |-> doc]

versionRead(p, id, updates) ==
  /\ \A q \in Callers : calls[q] = Idle
  /\ Len(violations) < MaxRules
  /\ IF id \notin DOMAIN violations
       THEN /\ last' = Response("updateViolation", id, 404)
            /\ calls' = calls
       ELSE IF ~violations[id].isActive
         THEN /\ last' = Response("updateViolation", id, 400)
              /\ calls' = calls
         ELSE /\ calls' = [calls EXCEPT ![p] =
                     VersionCall("retire", id, updates, violations[id])]
              /\ last' = last
  /\ UNCHANGED <<violations, citations, contests, now>>

(* await this.save(): isActive, effectiveUntil and supersededBy are written *)
versionRetire(p) ==
  /\ calls[p].pc = "retire"
  /\ violations' = [violations EXCEPT ![calls[p].id] =
                      Retired(@, now, Len(violations) + 1)]
  /\ calls' = [calls EXCEPT ![p] =
        VersionCall("successor", @.id, @.updates, @.doc)]
  /\ UNCHANGED <<citations, contests, now, last>>

(* await newVersion.save(), and the answer *)
versionInsert(p) ==
  /\ calls[p].pc = "successor"
  /\ violations' = Append(violations, NewVersion(calls[p].doc, calls[p].updates))
  /\ calls' = [calls EXCEPT ![p] = Idle]
  /\ last' = Response("updateViolation", calls[p].id, 200)
  /\ UNCHANGED <<citations, contests, now>>

(* the process stops before its next write; the request gets no answer *)
versionStop(p) ==
  /\ calls[p].pc \in {"retire", "successor"}
  /\ calls' = [calls EXCEPT ![p] = Idle]
  /\ last' = Response("updateViolation", calls[p].id, 0)
  /\ UNCHANGED <<violations, citations, contests, now>>

(***************************************************************************)
(* updateViolation with overlapping requests.  The successor's id is made  *)
(* by new Violation(...) before either write; here it is the position the  *)
(* request takes when it retires the predecessor, and the successors are   *)
(* inserted in the order of their positions.                               *)
(***************************************************************************)
OverlapCall(pc, id, updates, doc, newId) ==
  [pc |-> pc, id |-> id, updates |-> updates, doc |-> doc, newId |-> newId]

(* positions taken by requests that have retired but not yet inserted *)
Pending == {q \in Callers : calls[q].pc = "successor"}

overlapRead(p, id, updates) ==
  /\ calls[p] = Idle
  /\ Len(violations) + Cardinality({q \in Callers : calls[q] # Idle}) < MaxRules
  /\ IF id \notin DOMAIN violations
       THEN /\ last' = Response("updateViolation", id, 404)
            /\ calls' = calls
       ELSE IF ~violations[id].isActive
         THEN /\ last' = Response("updateViolation", id, 400)
              /\ calls' = calls
         ELSE /\ calls' = [calls EXCEPT ![p] =
                     OverlapCall("retire", id, updates, violations[id], 0)]
              /\ last' = last
  /\ UNCHANGED <<violations, citations, contests, now>>

overlapRetire(p) ==
  /\ calls[p].pc = "retire"
  /\ LET newId == Len(violations) + Cardinality(Pending) + 1
     IN /\ violations' = [violations EXCEPT ![calls[p].id] = Retired(@, now, newId)]
        /\ calls' = [calls EXCEPT ![p] =
              OverlapCall("successor", @.id, @.updates, @.doc, newId)]
  /\ UNCHANGED <<citations, contests, now, last>>

overlapInsert(p) ==
  /\ calls[p].pc = "successor"
  /\ calls[p].newId = Len(violations) + 1
  /\ violations' = Append(violations, NewVersion(calls[p].doc, calls[p].updates))
  /\ calls' = [calls EXCEPT ![p] = Idle]
  /\ last' = Response("updateViolation", calls[p].id, 200)
  /\ UNCHANGED <<citations, contests, now>>

(***************************************************************************)
(* Contests.  ContestSchema.pre('save') starts the history of a new        *)
(* contest; addStatusHistory appends one entry per transition.             *)
(***************************************************************************)
HistoryEntry(status, changedBy) ==
  [status |-> status, changedBy |-> changedBy,
   changedByModel |-> IF status = "WITHDRAWN" THEN "Driver" ELSE "User"]

(* a transition that records nothing *)
addStatusHistory_none(contest, status, changedBy) == contest

addStatusHistory(contest, status, changedBy) ==
  [contest EXCEPT !.statusHistory = Append(@, HistoryEntry(status, changedBy))]

ContestPreSave(contest, isNew) ==
  IF isNew /\ Len(contest.statusHistory) = 0
  THEN [contest EXCEPT !.statusHistory =
          <<[status |-> contest.status, changedBy |-> contest.contestedBy,
             changedByModel |-> "Driver"]>>]
  ELSE contest

(* generateContestNo: highest stored number plus one *)
RECURSIVE MaxContestNo(_)
MaxContestNo(ks) ==
  IF ks = <<>> THEN 0
  ELSE LET m == MaxContestNo(Tail(ks))
       IN IF Head(ks).contestNo > m THEN Head(ks).contestNo ELSE m

generateContestNo(ks) == MaxContestNo(ks) + 1

NewContest(ks, citationId, contestedBy) ==
  [citationId |-> citationId,
   contestNo |-> generateContestNo(ks),
   contestedBy |-> contestedBy,
   status |-> "SUBMITTED",
   statusHistory |-> <<>>,
   reviewedBy |-> Nobody,
   resolution |-> "",
   isActive |-> TRUE]

NotContestable == {"PAID", "VOID", "DISMISSED"}

(* a lookup that never finds a contest *)
HasActiveContest_none(ks, citationId) == FALSE

(* Contest.findOne({ citationId, isActive: true }) finds a contest *)
HasActiveContest(ks, citationId) ==
  \E k \in DOMAIN ks : ks[k].citationId = citationId /\ ks[k].isActive

submitContest(citationId, contestedBy) ==
  /\ citationId \in DOMAIN citations
  /\ LET c0 == citations[citationId]
         c == [c0 EXCEPT !.status = "CONTESTED"]
     IN IF c0.status \in NotContestable \/ HasActiveContest(contests, citationId)
        THEN /\ contests' = contests
             /\ citations' = citations
             /\ last' = Response("submitContest", citationId, 400)
        ELSE /\ contests' = Append(contests,
                              ContestPreSave(NewContest(contests, citationId, contestedBy), TRUE))
             /\ citations' = SaveCitation(citations, citationId, c, now)
             /\ last' = Response("submitContest", citationId,
                                 IF CitationValid(c) THEN 201 ELSE 400)
  /\ UNCHANGED <<calls, violations, now>>

(***************************************************************************)
(* submitContest with overlapping requests: one step per round trip.       *)
(* Citation.findById and Contest.findOne, then generateContestNo, then     *)
(* contest.save() under the unique indexes on citationId and contestNo,    *)
(* then citation.save() of the status (save writes the modified paths).    *)
(***************************************************************************)
(* a collection without unique indexes *)
DuplicateKey_none(ks, contest) == FALSE

DuplicateKey(ks, contest) ==
  \E k \in DOMAIN ks :
    ks[k].citationId = contest.citationId \/ ks[k].contestNo = contest.contestNo

SubmitCall(pc, citationId, contestedBy, citation, contestNo) ==
  [pc |-> pc, citationId |-> citationId, contestedBy |-> contestedBy,
   citation |-> citation, contestNo |-> contestNo]

submitRead(p, citationId, contestedBy) ==
  /\ calls[p] = Idle
  /\ citationId \in DOMAIN citations
  /\ IF \/ citations[citationId].status \in NotContestable
        \/ HasActiveContest(contests, citationId)
     THEN /\ calls' = calls
          /\ last' = Response("submitContest", citationId, 400)
     ELSE /\ calls' = [calls EXCEPT ![p] =
                 SubmitCall("number", citationId, contestedBy, citations[citationId], 0)]
          /\ last' = last
  /\ UNCHANGED <<violations, citations, contests, now>>

submitNumber(p) ==
  /\ calls[p].pc = "number"
  /\ calls' = [calls EXCEPT ![p] =
        SubmitCall("insert", @.citationId, @.contestedBy, @.citation,
                   generateContestNo(contests))]
  /\ UNCHANGED <<violations, citations, contests, now, last>>

submitInsert(p) ==
  /\ calls[p].pc = "insert"
  /\ LET call == calls[p]
         contest == ContestPreSave(
                      [NewContest(contests, call.citationId, call.contestedBy)
                         EXCEPT !.contestNo = call.contestNo], TRUE)
     IN IF DuplicateKey(contests, contest)
        THEN /\ contests' = contests
             /\ calls' = [calls EXCEPT ![p] = Idle]
             /\ last' = Response("submitContest", call.citationId, 400)
        ELSE /\ contests' = Append(contests, contest)
             /\ calls' = [calls EXCEPT ![p] =
                   SubmitCall("citation", call.citationId, call.contestedBy,
                              call.citation, call.contestNo)]
             /\ last' = last
  /\ UNCHANGED <<violations, citations, now>>

submitCitation(p) ==
  /\ calls[p].pc = "citation"
  /\ LET call == calls[p]
         c == [call.citation EXCEPT !.status = "CONTESTED"]
         saved == CitationPreSave(c, now)
     IN /\ citations' =
             IF CitationValid(c)
             THEN [citations EXCEPT ![call.citationId].status = saved.status,
                                    ![call.citationId].totalAmount = saved.totalAmount,
                                    ![call.citationId].amountDue = saved.amountDue]
             ELSE citations
        /\ last' = Response("submitContest", call.citationId,
                            IF CitationValid(c) THEN 201 ELSE 400)
  /\ calls' = [calls EXCEPT ![p] = Idle]
  /\ UNCHANGED <<violations, contests, now>>

(* the process stops before its next round trip; the request gets no answer *)
submitStop(p) ==
  /\ calls[p].pc \in {"number", "insert", "citation"}
  /\ calls' = [calls EXCEPT ![p] = Idle]
  /\ last' = Response("submitContest", calls[p].citationId, 0)
  /\ UNCHANGED <<violations, citations, contests, now>>

(* status a citation goes back to when its contest is rejected or withdrawn *)
RevertedStatus(c) ==
  IF c.amountPaid > 0 THEN "PARTIALLY_PAID" ELSE "PENDING"

(* guard of the approve and reject handlers *)
AlreadyResolved(contest) == contest.status \in {"APPROVED", "REJECTED"}

approveContest(k, resolvedBy, resolution) ==
  /\ k \in DOMAIN contests
  /\ LET contest == contests[k]
         c == [citations[contest.citationId] EXCEPT !.status = "DISMISSED"]
     IN IF resolution = "" \/ AlreadyResolved(contest)
        THEN /\ contests' = contests
             /\ citations' = citations
             /\ last' = Response("approveContest", k, 400)
        ELSE /\ contests' = [contests EXCEPT ![k] =
                  addStatusHistory([contest EXCEPT !.status = "APPROVED",
                                                   !.reviewedBy = resolvedBy,
                                                   !.resolution = resolution],
                                   "APPROVED", resolvedBy)]
             /\ citations' = SaveCitation(citations, contest.citationId, c, now)
             /\ last' = Response("approveContest", k,
                                 IF CitationValid(c) THEN 200 ELSE 500)
  /\ UNCHANGED <<calls, violations, now>>

rejectContest(k, resolvedBy, resolution) ==
  /\ k \in DOMAIN contests
  /\ LET contest == contests[k]
         c0 == citations[contest.citationId]
         c == [c0 EXCEPT !.status = RevertedStatus(c0)]
     IN IF resolution = "" \/ AlreadyResolved(contest)
        THEN /\ contests' = contests
             /\ citations' = citations
             /\ last' = Response("rejectContest", k, 400)
        ELSE /\ contests' = [contests EXCEPT ![k] =
                  addStatusHistory([contest EXCEPT !.status = "REJECTED",
                                                   !.reviewedBy = resolvedBy,
                                                   !.resolution = resolution],
                                   "REJECTED", resolvedBy)]
             /\ citations' = SaveCitation(citations, contest.citationId, c, now)
             /\ last' = Response("rejectContest", k,
                                 IF CitationValid(c) THEN 200 ELSE 500)
  /\ UNCHANGED <<calls, violations, now>>

(* an owner check that lets everybody through *)
NotOwner_never(contest, userId) == FALSE

(* contest.contestedBy.toString() !== userId *)
NotOwner(contest, userId) == contest.contestedBy # userId

withdrawContest(k, userId) ==
  /\ k \in DOMAIN contests
  /\ LET contest == contests[k]
         c0 == citations[contest.citationId]
         c == [c0 EXCEPT !.status = RevertedStatus(c0)]
     IN IF NotOwner(contest, userId)
        THEN /\ contests' = contests
             /\ citations' = citations
             /\ last' = Response("withdrawContest", k, 403)
        ELSE IF AlreadyResolved(contest) \/ contest.status = "WITHDRAWN"
        THEN /\ contests' = contests
             /\ citations' = citations
             /\ last' = Response("withdrawContest", k, 400)
        ELSE /\ contests' = [contests EXCEPT ![k] =
                  addStatusHistory([contest EXCEPT !.status = "WITHDRAWN"],
                                   "WITHDRAWN", contest.contestedBy)]
             /\ citations' = SaveCitation(citations, contest.citationId, c, now)
             /\ last' = Response("withdrawContest", k,
                                 IF CitationValid(c) THEN 200 ELSE 500)
  /\ UNCHANGED <<calls, violations, now>>

(***************************************************************************)
(* approveContest, rejectContest and withdrawContest with overlapping      *)
(* requests, one step per write: the controller loads the contest and      *)
(* checks it, the helper saves the contest (status set, history entry      *)
(* pushed), then loads the citation, sets its status and saves it.         *)
(***************************************************************************)
Kinds == {"approveContest", "rejectContest", "withdrawContest"}

TargetStatus(kind) ==
  CASE kind = "approveContest" -> "APPROVED"
    [] kind = "rejectContest" -> "REJECTED"
    [] OTHER -> "WITHDRAWN"

TransitionCall(pc, kind, k, actor) == [pc |-> pc, kind |-> kind, k |-> k, actor |-> actor]

transitionRead(p, kind, k, actor) ==
  /\ calls[p] = Idle
  /\ k \in DOMAIN contests
  /\ LET contest == contests[k]
     IN IF kind = "withdrawContest" /\ NotOwner(contest, actor)
        THEN /\ last' = Response(kind, k, 403)
             /\ calls' = calls
        ELSE IF \/ AlreadyResolved(contest)
                \/ (kind = "withdrawContest" /\ contest.status = "WITHDRAWN")
        THEN /\ last' = Response(kind, k, 400)
             /\ calls' = calls
        ELSE /\ calls' = [calls EXCEPT ![p] = TransitionCall("saveContest", kind, k, actor)]
             /\ last' = last
  /\ UNCHANGED <<violations, citations, contests, now>>

(* await contest.save() *)
transitionContest(p) ==
  /\ calls[p].pc = "saveContest"
  /\ LET call == calls[p]
         status == TargetStatus(call.kind)
     IN contests' = [contests EXCEPT ![call.k] =
          addStatusHistory(
            IF call.kind = "withdrawContest"
            THEN [@ EXCEPT !.status = status]
            ELSE [@ EXCEPT !.status = status, !.reviewedBy = call.actor,
                           !.resolution = "upheld"],
            status, call.actor)]
  /\ calls' = [calls EXCEPT ![p] = [@ EXCEPT !.pc = "saveCitation"]]
  /\ UNCHANGED <<violations, citations, now, last>>

(* Citation.findById, the status, await citation.save(), and the answer *)
transitionCitation(p) ==
  /\ calls[p].pc = "saveCitation"
  /\ LET call == calls[p]
         id == contests[call.k].citationId
         c0 == citations[id]
         c == [c0 EXCEPT !.status = IF call.kind = "approveContest"
                                    THEN "DISMISSED" ELSE RevertedStatus(c0)]
     IN /\ citations' = SaveCitation(citations, id, c, now)
        /\ last' = Response(call.kind, call.k, IF CitationValid(c) THEN 200 ELSE 500)
  /\ calls' = [calls EXCEPT ![p] = Idle]
  /\ UNCHANGED <<violations, contests, now>>

(* the process stops before its next write; the request gets no answer *)
transitionStop(p) ==
  /\ calls[p].pc \in {"saveContest", "saveCitation"}
  /\ calls' = [calls EXCEPT ![p] = Idle]
  /\ last' = Response(calls[p].kind, calls[p].k, 0)
  /\ UNCHANGED <<violations, citations, contests, now>>

moveToReview(k, reviewedBy) ==
  /\ k \in DOMAIN contests
  /\ LET contest == contests[k]
     IN IF contest.status # "SUBMITTED"
        THEN /\ contests' = contests
             /\ last' = Response("moveToReview", k, 400)
        ELSE /\ contests' = [contests EXCEPT ![k] =
                  addStatusHistory([contest EXCEPT !.status = "UNDER_REVIEW",
                                                   !.reviewedBy = reviewedBy],
                                   "UNDER_REVIEW", reviewedBy)]
             /\ last' = Response("moveToReview", k, 200)
  /\ UNCHANGED <<calls, violations, citations, now>>

(***************************************************************************)
(* The lifecycle specification: one citation and its contest, followed     *)
(* through every request in any order.  The handlers below never read or   *)
(* write a second citation, so one citation shows all they do; SpecIssue   *)
(* is the specification with several citations.                            *)
(***************************************************************************)
Resolutions == {"", "upheld"}

Issue ==
  /\ citations = <<>>
  /\ \E vt \in VehicleTypes, ids \in SUBSET (DOMAIN violations), due \in DueDates :
       createCitation("d1", vt, ids, due)

Pay == \E id \in DOMAIN citations, amount \in Payments : addPayment(id, amount)

MarkPaid == \E id \in DOMAIN citations : markAsPaid(id)

Refresh == \E id \in DOMAIN citations : updateStatus(id)

Update == \E id \in DOMAIN citations, due \in DueDates \cup {NoDate} : updateCitation(id, due)

Void == \E id \in DOMAIN citations, r \in Reasons, a \in Admins : voidCitation(id, r, a)

Submit == \E id \in DOMAIN citations, d \in Drivers : submitContest(id, d)

Review == \E k \in DOMAIN contests, a \in Admins : moveToReview(k, a)

Approve == \E k \in DOMAIN contests, a \in Admins, r \in Resolutions : approveContest(k, a, r)

Reject == \E k \in DOMAIN contests, a \in Admins, r \in Resolutions : rejectContest(k, a, r)

Withdraw == \E k \in DOMAIN contests, d \in Drivers : withdrawContest(k, d)

Next ==
  \/ Issue
  \/ Pay
  \/ MarkPaid
  \/ Refresh
  \/ Update
  \/ Void
  \/ Submit
  \/ Review
  \/ Approve
  \/ Reject
  \/ Withdraw
  \/ Tick

Spec == Init /\ [][Next]_vars

TypeOK ==
  /\ now \in 0..MaxTime
  /\ \A i \in DOMAIN citations : citations[i].status \in CitationStatus
  /\ \A k \in DOMAIN contests : contests[k].status \in ContestStatus

(***************************************************************************)
(* The payment specification: a citation is issued and then only paid.     *)
(***************************************************************************)
NextPay ==
  \/ Issue
  \/ Pay
  \/ Tick

SpecPay == Init /\ [][NextPay]_vars

(***************************************************************************)
(* The issuing specification: citations are issued one after another for   *)
(* the progressive rule, and the issued citations are voided, contested    *)
(* and resolved in between.  The first citation goes to either driver,     *)
(* the later ones to driver d1; a contest resolved in between is approved  *)
(* (a rejected one puts the citation back where it was before it).         *)
(***************************************************************************)
IssueNext ==
  /\ Len(citations) < MaxIssued
  /\ \E d \in (IF citations = <<>> THEN Drivers ELSE {"d1"}) :
       createCitation(d, "PRIVATE", {1}, NoDate)

VoidIssued == \E id \in DOMAIN citations : voidCitation(id, "r1", "a1")

ContestIssued == \E id \in DOMAIN citations : contestCitation(id)

ResolveIssued == \E id \in DOMAIN citations : resolveContest(id, TRUE)

NextIssue ==
  \/ IssueNext
  \/ VoidIssued
  \/ ContestIssued
  \/ ResolveIssued

SpecIssue == Init /\ [][NextIssue]_vars

(***************************************************************************)
(* The history specification: citations are issued one after another to    *)
(* driver d1 for the progressive rule; the issued citations are paid and   *)
(* voided in between.                                                      *)
(***************************************************************************)
IssueCited ==
  /\ Len(citations) < MaxCited
  /\ createCitation("d1", "PRIVATE", {1}, NoDate)

PayCited == \E id \in DOMAIN citations : addPayment(id, 750)

VoidCited == \E id \in DOMAIN citations : voidCitation(id, "r1", "a1")

NextHistory ==
  \/ IssueCited
  \/ PayCited
  \/ VoidCited

SpecHistory == Init /\ [][NextHistory]_vars

(***************************************************************************)
(* The overlapping-submission specification: a citation is issued and two  *)
(* callers submit contests for it, their round trips interleaved.          *)
(***************************************************************************)
SubmitRead ==
  \E p \in Callers, id \in DOMAIN citations, d \in Drivers : submitRead(p, id, d)

SubmitNumber == \E p \in Callers : submitNumber(p)

SubmitInsert == \E p \in Callers : submitInsert(p)

SubmitCitation == \E p \in Callers : submitCitation(p)

NextSubmitRace ==
  \/ Issue
  \/ SubmitRead
  \/ SubmitNumber
  \/ SubmitInsert
  \/ SubmitCitation

SpecSubmitRace == Init /\ [][NextSubmitRace]_vars

(***************************************************************************)
(* The catalog under maintenance, one request at a time.                   *)
(***************************************************************************)
CreateRule == \E d \in NewRules : createViolation(d)

UpdateRule == \E id \in 1..MaxRules, u \in Updates : updateViolation(id, u)

DeleteRule == \E id \in 1..MaxRules : deleteViolation(id)

NextCatalog == CreateRule \/ UpdateRule \/ DeleteRule \/ Tick

SpecCatalog == Init /\ [][NextCatalog]_vars

(***************************************************************************)
(* The catalog with updateViolation taken write by write.                  *)
(***************************************************************************)
CreateRuleAlone == (\A q \in Callers : calls[q] = Idle) /\ CreateRule

VersionRead ==
  \E p \in Callers, id \in 1..MaxRules, u \in Updates : versionRead(p, id, u)

VersionRetire == \E p \in Callers : versionRetire(p)

VersionInsert == \E p \in Callers : versionInsert(p)

VersionStop == \E p \in Callers : versionStop(p)

NextVersion ==
  \/ CreateRuleAlone
  \/ DeleteRule
  \/ VersionRead
  \/ VersionRetire
  \/ VersionInsert
  \/ VersionStop
  \/ Tick

SpecVersion == Init /\ [][NextVersion]_vars

(***************************************************************************)
(* Overlapping createCitation requests for the progressive rule.           *)
(***************************************************************************)
IssueRead ==
  \E p \in Callers, d \in Drivers :
    /\ Len(citations) < MaxIssued
    /\ issueRead(p, d, "PRIVATE", {1}, NoDate)

IssueNumber == \E p \in Callers : issueNumber(p)

IssueSave == \E p \in Callers : issueSave(p)

NextIssueRace == IssueRead \/ IssueNumber \/ IssueSave

SpecIssueRace == Init /\ [][NextIssueRace]_vars

(***************************************************************************)
(* The schedule specification: the catalog is extended and revised, and    *)
(* citations are issued to driver d1 for one rule at a time.               *)
(***************************************************************************)
IssueRule ==
  \E id \in DOMAIN violations :
    /\ Len(citations) < MaxIssued
    /\ createCitation("d1", "PRIVATE", {id}, NoDate)

NextTiers == CreateRule \/ UpdateRule \/ IssueRule

SpecTiers == Init /\ [][NextTiers]_vars

(***************************************************************************)
(* The due-date specification: a citation is issued, paid in instalments   *)
(* and refreshed, the refresh taken save by save.                          *)
(***************************************************************************)
StatusOverdue == \E p \in Callers, id \in DOMAIN citations : statusOverdue(p, id)

StatusPaid == \E p \in Callers : statusPaid(p)

NextDue ==
  \/ Issue
  \/ Pay
  \/ StatusOverdue
  \/ StatusPaid
  \/ Tick

SpecDue == Init /\ [][NextDue]_vars

(***************************************************************************)
(* Overlapping updateViolation requests.                                   *)
(***************************************************************************)
OverlapRead ==
  \E p \in Callers, id \in 1..MaxRules, u \in Updates : overlapRead(p, id, u)

OverlapRetire == \E p \in Callers : overlapRetire(p)

OverlapInsert == \E p \in Callers : overlapInsert(p)

NextVersionRace == OverlapRead \/ OverlapRetire \/ OverlapInsert \/ Tick

SpecVersionRace == Init /\ [][NextVersionRace]_vars

(***************************************************************************)
(* The frame specification: citations are issued to driver d1 while the    *)
(* rules they cite are revised and deactivated.                            *)
(***************************************************************************)
IssuePriced ==
  \E id \in DOMAIN violations :
    /\ Len(citations) < MaxCited
    /\ createCitation("d1", "PRIVATE", {id}, NoDate)

NextFrame == IssuePriced \/ UpdateRule \/ DeleteRule

SpecFrame == Init /\ [][NextFrame]_vars

(***************************************************************************)
(* Overlapping resolutions: a citation is issued and contested, and an     *)
(* admin's approval or rejection (caller p1) and the driver's withdrawal   *)
(* (caller p2) are invoked on the open contest, their writes interleaved.  *)
(***************************************************************************)
TransitionRead ==
  \E k \in DOMAIN contests :
    /\ contests[k].status \in {"SUBMITTED", "UNDER_REVIEW"}
    /\ \/ \E a \in Admins : transitionRead("p1", "approveContest", k, a)
       \/ \E a \in Admins : transitionRead("p1", "rejectContest", k, a)
       \/ \E d \in Drivers : transitionRead("p2", "withdrawContest", k, d)

TransitionContest == \E p \in Callers : transitionContest(p)

TransitionCitation == \E p \in Callers : transitionCitation(p)

NextTransitionRace ==
  \/ Issue
  \/ Submit
  \/ Review
  \/ TransitionRead
  \/ TransitionContest
  \/ TransitionCitation

SpecTransitionRace == Init /\ [][NextTransitionRace]_vars

(***************************************************************************)
(* The stopping specification: submissions and resolutions taken write by  *)
(* write, where a request can stop before any of its writes.               *)
(***************************************************************************)
SubmitStop == \E p \in Callers : submitStop(p)

TransitionStop == \E p \in Callers : transitionStop(p)

NextStop ==
  \/ Issue
  \/ SubmitRead
  \/ SubmitNumber
  \/ SubmitInsert
  \/ SubmitCitation
  \/ SubmitStop
  \/ TransitionRead
  \/ TransitionContest
  \/ TransitionCitation
  \/ TransitionStop

SpecStop == Init /\ [][NextStop]_vars

Max(a, b) == IF a >= b THEN a ELSE b

(***************************************************************************)
(* C1: every stored citation has totalAmount equal to the sum of its       *)
(* lines' fineAmount and amountDue equal to max(0, totalAmount -           *)
(* amountPaid).                                                            *)
(***************************************************************************)
C1_AmountsDerived ==
  \A id \in DOMAIN citations :
    /\ citations[id].totalAmount = SumFines(citations[id].violations)
    /\ citations[id].amountDue =
         Max(0, citations[id].totalAmount - citations[id].amountPaid)

(***************************************************************************)
(* C2: in a run of payments on a citation that started PENDING, a payment  *)
(* leaves the citation PARTIALLY_PAID while amountPaid is below            *)
(* totalAmount, and PAID with amountDue 0 as soon as amountPaid reaches    *)
(* totalAmount, whichever payment reaches it.                              *)
(***************************************************************************)
C2_PaymentsReachPaid ==
  [][\A id \in DOMAIN citations, amount \in Payments :
       (addPayment(id, amount) /\ citations[id].status \in {"PENDING", "PARTIALLY_PAID"})
       => LET c == citations'[id]
          IN IF c.amountPaid >= c.totalAmount
             THEN c.status = "PAID" /\ c.amountDue = 0
             ELSE c.status = "PARTIALLY_PAID"]_vars

(***************************************************************************)
(* C3: approving an open contest (SUBMITTED or UNDER_REVIEW) leaves the    *)
(* contested citation DISMISSED, whatever its amountPaid.                  *)
(***************************************************************************)
OpenContest(contest) == contest.status \in {"SUBMITTED", "UNDER_REVIEW"}

C3_ApproveDismisses ==
  [][\A k \in DOMAIN contests, a \in Admins :
       (approveContest(k, a, "upheld") /\ OpenContest(contests[k]))
       => citations'[contests[k].citationId].status = "DISMISSED"]_vars

(***************************************************************************)
(* C4 as stated: right after a contest is rejected or withdrawn the        *)
(* citation is PARTIALLY_PAID if amountPaid > 0 and PENDING otherwise,     *)
(* never OVERDUE, even when the due date has passed.                       *)
(***************************************************************************)
Rejects(k) ==
  /\ \/ \E a \in Admins : rejectContest(k, a, "upheld")
     \/ \E d \in Drivers : withdrawContest(k, d)
  /\ contests'[k].status # contests[k].status
  /\ last'.code = 200

C5_SubmitContests ==
  [][\A id \in DOMAIN citations, d \in Drivers :
       (/\ submitContest(id, d)
        /\ citations[id].status \in {"PENDING", "PARTIALLY_PAID", "OVERDUE"}
        /\ ~HasActiveContest(contests, id))
       => /\ last'.code = 201
          /\ Len(contests') = Len(contests) + 1
          /\ contests'[Len(contests')].citationId = id
          /\ contests'[Len(contests')].status = "SUBMITTED"
          /\ citations'[id].status = "CONTESTED"]_vars

(***************************************************************************)
(* C6: submitContest on a citation that has been paid in full, voided or   *)
(* dismissed fails, creates no contest and leaves the citation unchanged.  *)
(***************************************************************************)
PaidInFull(c) == c.amountPaid >= c.totalAmount

C6_SubmitRefused ==
  [][\A id \in DOMAIN citations, d \in Drivers :
       (/\ submitContest(id, d)
        /\ \/ PaidInFull(citations[id])
           \/ citations[id].isVoid
           \/ citations[id].status \in {"PAID", "VOID", "DISMISSED"})
       => /\ last'.code = 400
          /\ contests' = contests
          /\ citations' = citations]_vars

(***************************************************************************)
(* C7: approve, reject or withdraw on a contest that is already APPROVED,  *)
(* REJECTED or WITHDRAWN fails and changes neither the contest nor its     *)
(* citation.                                                               *)
(***************************************************************************)
C7_ResolvedIsFinal ==
  [][\A k \in DOMAIN contests :
       (/\ contests[k].status \in {"APPROVED", "REJECTED", "WITHDRAWN"}
        /\ \/ \E a \in Admins : approveContest(k, a, "upheld")
           \/ \E a \in Admins : rejectContest(k, a, "upheld")
           \/ \E d \in Drivers : withdrawContest(k, d))
       => /\ last'.code \in {400, 403}
          /\ contests' = contests
          /\ citations' = citations]_vars

(***************************************************************************)
(* C8: voidCitation succeeds from every non-void status, and a citation    *)
(* that is void stays void with status VOID whatever request follows.      *)
(***************************************************************************)
C8_VoidIsTerminal ==
  [][\A id \in DOMAIN citations :
       (\/ citations[id].isVoid
        \/ \E r \in Reasons, a \in Admins : voidCitation(id, r, a))
       => /\ citations'[id].isVoid
          /\ citations'[id].status = "VOID"]_vars

(***************************************************************************)
(* C9: voidCitation on a citation that is already void fails and leaves    *)
(* voidReason, voidedBy, voidedAt and status as the first void set them.   *)
(***************************************************************************)
C9_SecondVoidRefused ==
  [][\A id \in DOMAIN citations, r \in Reasons, a \in Admins :
       (voidCitation(id, r, a) /\ citations[id].isVoid)
       => /\ last'.code = 400
          /\ citations'[id].voidReason = citations[id].voidReason
          /\ citations'[id].voidedBy = citations[id].voidedBy
          /\ citations'[id].voidedAt = citations[id].voidedAt
          /\ citations'[id].status = citations[id].status]_vars

C9_Witness ==
  /\ last = Response("voidCitation", 0, 400)
  /\ \E id \in DOMAIN citations :
       /\ citations[id].isVoid
       /\ citations[id].voidedAt < now

(***************************************************************************)
(* C10.  The tier of the k-th offense, and the citations of a driver that  *)
(* carry a line for a violation, counted without the handler's own query.  *)
(***************************************************************************)
TierFine(k) ==
  CASE k = 1 -> 1500
    [] k = 2 -> 3000
    [] k = 3 -> 5000
    [] OTHER -> 10000

HasLine(c, vid) == \E j \in DOMAIN c.violations : c.violations[j].violationId = vid

Line(c, vid) ==
  c.violations[CHOOSE j \in DOMAIN c.violations : c.violations[j].violationId = vid]

Cited(d, vid) ==
  {i \in DOMAIN citations : citations[i].driverId = d /\ HasLine(citations[i], vid)}

Issues(d) ==
  /\ createCitation(d, "PRIVATE", {1}, NoDate)
  /\ last'.code = 201

(***************************************************************************)
(* C10 as stated: when no citation issued so far to the driver for the     *)
(* progressive rule is void, the next one issued to that driver for that   *)
(* rule is the k-th, carries offense ordinal k and the fine of tier k.     *)
(***************************************************************************)
C10_KthCitationHasOrdinalK ==
  [][\A d \in Drivers :
       (Issues(d) /\ \A i \in Cited(d, 1) : ~citations[i].isVoid)
       => LET new == Line(citations'[Len(citations')], 1)
              k == Cardinality(Cited(d, 1)) + 1
          IN new.offenseCount = k /\ new.fineAmount = TierFine(k)]_vars

(***************************************************************************)
(* C10 as amended: the citation issued to a driver for the progressive     *)
(* rule carries ordinal n + 1 and the fine of tier n + 1, where n is the   *)
(* number of citations issued earlier to that driver for that violation    *)
(* record that, at the time of issue, are not void and have status         *)
(* PENDING, PARTIALLY_PAID, OVERDUE or PAID (a contested or dismissed      *)
(* citation is not counted).                                               *)
(***************************************************************************)
C10_OrdinalCountsOpenAndPaid ==
  [][\A d \in Drivers :
       Issues(d)
       => LET new == Line(citations'[Len(citations')], 1)
              n == Cardinality({i \in Cited(d, 1) :
                                  /\ ~citations[i].isVoid
                                  /\ citations[i].status \in
                                       {"PENDING", "PARTIALLY_PAID", "OVERDUE", "PAID"}})
          IN new.offenseCount = n + 1 /\ new.fineAmount = TierFine(n + 1)]_vars

C10_Witness ==
  /\ last = Response("createCitation", 0, 201)
  /\ Len(citations) = 4
  /\ \A i \in 1..4 :
       /\ citations[i].driverId = "d1"
       /\ ~citations[i].isVoid
       /\ Line(citations[i], 1).offenseCount = i
       /\ Line(citations[i], 1).fineAmount = TierFine(i)

(***************************************************************************)
(* C11: a voided citation is never counted toward the ordinal of a later   *)
(* citation, whatever had been paid on it when it was voided: the ordinal  *)
(* of a newly issued citation is one more than the number of the driver's  *)
(* earlier citations for the violation that are not void (in the history   *)
(* specification every citation that is not void is pending or paid).      *)
(***************************************************************************)
NotVoided(d, vid) == {i \in Cited(d, vid) : ~citations[i].isVoid}

C11_VoidedNeverCounted ==
  [][(createCitation("d1", "PRIVATE", {1}, NoDate) /\ last'.code = 201)
     => Line(citations'[Len(citations')], 1).offenseCount =
          Cardinality(NotVoided("d1", 1)) + 1]_vars

C11_Witness ==
  /\ last = Response("createCitation", 0, 201)
  /\ Len(citations) = 3
  /\ \E i, j \in 1..2 :
       /\ i # j
       /\ citations[i].isVoid /\ citations[i].amountPaid > 0
       /\ ~citations[j].isVoid
  /\ Line(citations[3], 1).offenseCount = 2

(***************************************************************************)
(* C12: submitContest for a citation that already has an open contest      *)
(* (SUBMITTED or UNDER_REVIEW) fails, creates no second contest and leaves *)
(* the existing contest and the citation unchanged.                        *)
(***************************************************************************)
HasOpenContest(id) ==
  \E k \in DOMAIN contests : contests[k].citationId = id /\ OpenContest(contests[k])

C12_SecondSubmitRefused ==
  [][\A id \in DOMAIN citations, d \in Drivers :
       (submitContest(id, d) /\ HasOpenContest(id))
       => /\ last'.code = 400
          /\ contests' = contests
          /\ citations' = citations]_vars

C12_Witness ==
  /\ last = Response("submitContest", 0, 400)
  /\ Len(contests) = 1
  /\ OpenContest(contests[1])
  /\ citations[contests[1].citationId].status \notin NotContestable

(***************************************************************************)
(* C13: in every reachable state there is at most one contest per          *)
(* citation, also when two submissions for the same citation overlap and   *)
(* both pass the existing-contest check before either inserts.             *)
(***************************************************************************)
C13_OneContestPerCitation ==
  \A k1, k2 \in DOMAIN contests :
    contests[k1].citationId = contests[k2].citationId => k1 = k2

C13_Witness ==
  /\ last = Response("submitContest", 0, 400)
  /\ Len(contests) = 1
  /\ \E p \in Callers :
       /\ calls[p] = Idle
       /\ \E q \in Callers \ {p} :
            /\ calls[q].pc = "citation"
            /\ calls[q].citationId = contests[1].citationId

(***************************************************************************)
(* C14: after any sequence of catalog requests served one at a time, every *)
(* violation group has at most one version that is active and has no       *)
(* effectiveUntil.                                                         *)
(***************************************************************************)
ActiveVersions(vs, g) ==
  {i \in DOMAIN vs : /\ vs[i].violationGroupId = g
                     /\ vs[i].isActive
                     /\ vs[i].effectiveUntil = NoDate}

C14_OneActiveVersion ==
  \A i \in DOMAIN violations :
    Cardinality(ActiveVersions(violations, violations[i].violationGroupId)) <= 1

(* a group with a retired version and its active successor *)
C14_Witness ==
  /\ last = Response("updateViolation", 0, 200)
  /\ \E i, j \in DOMAIN violations :
       /\ violations[i].violationGroupId = violations[j].violationGroupId
       /\ violations[j].version = violations[i].version + 1
       /\ ~violations[i].isActive /\ violations[i].supersededBy = j
       /\ ActiveVersions(violations, violations[j].violationGroupId) = {j}

(***************************************************************************)
(* C15: when createNewVersion stops between its two writes, the group of   *)
(* the version it was updating has exactly one active version, neither     *)
(* two nor none.                                                           *)
(***************************************************************************)
StopsBetweenWrites(p) == calls[p].pc = "successor" /\ versionStop(p)

C15_StopLeavesOneActive ==
  [][\A p \in Callers :
       StopsBetweenWrites(p)
         => Cardinality(ActiveVersions(violations', calls[p].doc.violationGroupId)) = 1]_vars

(***************************************************************************)
(* C16: two createCitation requests for the same driver and the same       *)
(* progressive violation never give their lines the same offense ordinal,  *)
(* also when the requests overlap.                                         *)
(***************************************************************************)
C16_DistinctOrdinals ==
  \A i, j \in DOMAIN citations :
    (/\ i # j
     /\ citations[i].driverId = citations[j].driverId
     /\ HasLine(citations[i], 1) /\ HasLine(citations[j], 1))
      => Line(citations[i], 1).offenseCount # Line(citations[j], 1).offenseCount

(***************************************************************************)
(* C17: every createCitation request that reaches its insert stores its    *)
(* citation, under a number no stored citation carries, also when the      *)
(* requests overlap.                                                       *)
(***************************************************************************)
C17_EveryIssueStored ==
  [][\A p \in Callers :
       issueSave(p)
         => /\ last'.code = 201
            /\ Len(citations') = Len(citations) + 1
            /\ ~NumberTaken(citations, citations'[Len(citations')].citationNo)]_vars

(***************************************************************************)
(* C18: a citation stored by a successful createCitation is PENDING, with  *)
(* amountPaid 0 and amountDue equal to totalAmount, whatever due date and  *)
(* fines the request led to.                                               *)
(***************************************************************************)
C18_StartsPending ==
  [][(Issue /\ last'.code = 201)
       => LET c == citations'[Len(citations')]
          IN /\ c.status = "PENDING"
             /\ c.amountPaid = 0
             /\ c.amountDue = c.totalAmount]_vars

(***************************************************************************)
(* C19: the fine of a line for a progressive rule is that of the tier of   *)
(* its offense ordinal (1 first, 2 second, 3 third, 4 and up subsequent)   *)
(* or, where the schedule leaves that tier undefined, that of the highest  *)
(* defined tier below it; it is never the amount of a higher tier and      *)
(* never zero.                                                             *)
(***************************************************************************)
TierOf(k) == IF k >= 4 THEN 4 ELSE k

TierAmount(fineSchedule, tier) ==
  CASE tier = 1 -> fineSchedule.firstOffense
    [] tier = 2 -> fineSchedule.secondOffense
    [] tier = 3 -> fineSchedule.thirdOffense
    [] OTHER -> fineSchedule.subsequentOffense

RECURSIVE LowerTierFine(_, _)
LowerTierFine(fineSchedule, tier) ==
  IF tier = 1 \/ TierAmount(fineSchedule, tier) # 0
  THEN TierAmount(fineSchedule, tier)
  ELSE LowerTierFine(fineSchedule, tier - 1)

C19_FallsBackToLowerTier ==
  [][\A id \in DOMAIN violations :
       (/\ createCitation("d1", "PRIVATE", {id}, NoDate)
        /\ last'.code = 201
        /\ violations[id].fineStructure = "PROGRESSIVE")
         => LET line == Line(citations'[Len(citations')], id)
            IN /\ line.fineAmount # 0
               /\ line.fineAmount =
                    LowerTierFine(violations[id].progressiveFine.PRIVATE,
                                  TierOf(line.offenseCount))]_vars

(***************************************************************************)
(* C20: withdrawContest called by anybody but the contest's submitter is   *)
(* answered 403 and leaves every contest (status and history) and every    *)
(* citation as it was.                                                     *)
(***************************************************************************)
C20_OnlySubmitterWithdraws ==
  [][\A k \in DOMAIN contests, d \in Drivers :
       (withdrawContest(k, d) /\ contests[k].contestedBy # d)
         => /\ last'.code = 403
            /\ contests' = contests
            /\ citations' = citations]_vars

(* an open contest whose withdrawal has just been refused to another driver *)
C20_Witness ==
  /\ last = Response("withdrawContest", 0, 403)
  /\ \E k \in DOMAIN contests :
       /\ contests[k].status \in {"SUBMITTED", "UNDER_REVIEW"}
       /\ citations[contests[k].citationId].status = "CONTESTED"

(***************************************************************************)
(* C21: a contest changes its status only from SUBMITTED to UNDER_REVIEW,  *)
(* from UNDER_REVIEW to APPROVED or REJECTED, and from SUBMITTED or        *)
(* UNDER_REVIEW to WITHDRAWN.                                              *)
(***************************************************************************)
ContestFlow ==
  { <<"SUBMITTED", "UNDER_REVIEW">>,
    <<"UNDER_REVIEW", "APPROVED">>, <<"UNDER_REVIEW", "REJECTED">>,
    <<"SUBMITTED", "WITHDRAWN">>, <<"UNDER_REVIEW", "WITHDRAWN">> }

C21_ContestFlow ==
  [][\A k \in DOMAIN contests :
       contests'[k].status # contests[k].status
         => <<contests[k].status, contests'[k].status>> \in ContestFlow]_vars

(***************************************************************************)
(* C22: every contest has a statusHistory whose last entry carries the     *)
(* contest's status; a new contest starts with one entry, and every        *)
(* transition of a contest appends exactly one entry and leaves the        *)
(* earlier entries as they were.                                           *)
(***************************************************************************)
HistoryAgrees(contest) ==
  /\ Len(contest.statusHistory) > 0
  /\ contest.statusHistory[Len(contest.statusHistory)].status = contest.status

HistoryAppended(before, after) ==
  /\ Len(after.statusHistory) = Len(before.statusHistory) + 1
  /\ SubSeq(after.statusHistory, 1, Len(before.statusHistory)) = before.statusHistory

C22_HistoryFollowsStatus ==
  /\ [](\A k \in DOMAIN contests : HistoryAgrees(contests[k]))
  /\ [][\A k \in DOMAIN contests' :
          IF k \in DOMAIN contests
          THEN contests'[k] # contests[k] => HistoryAppended(contests[k], contests'[k])
          ELSE Len(contests'[k].statusHistory) = 1]_vars

(* a contest that was submitted, reviewed and resolved *)
C22_Witness ==
  \E k \in DOMAIN contests :
    /\ Len(contests[k].statusHistory) = 3
    /\ contests[k].statusHistory[2].status = "UNDER_REVIEW"
    /\ contests[k].status \in {"APPROVED", "REJECTED"}

(***************************************************************************)
(* C23: a stored citation turns OVERDUE only from PENDING and only past    *)
(* its due date; no due-date check stores a citation that is               *)
(* PARTIALLY_PAID, PAID, CONTESTED, DISMISSED or VOID as OVERDUE.          *)
(***************************************************************************)
C23_OverdueOnlyFromPending ==
  [][\A id \in DOMAIN citations :
       (citations'[id].status = "OVERDUE" /\ citations[id].status # "OVERDUE")
         => /\ citations[id].status = "PENDING"
            /\ citations[id].dueDate < now]_vars

(***************************************************************************)
(* C24: however updateViolation requests interleave, no two versions of a  *)
(* group carry the same version number, and a version's supersededBy is    *)
(* set at most once, to a version of its group numbered one higher.        *)
(***************************************************************************)
NoVersionReuse ==
  \A i, j \in DOMAIN violations :
    (/\ violations[i].violationGroupId = violations[j].violationGroupId
     /\ violations[i].version = violations[j].version) => i = j

ForwardLink(i) ==
  LET j == violations[i].supersededBy
  IN j \in DOMAIN violations
       => /\ violations[j].violationGroupId = violations[i].violationGroupId
          /\ violations[j].version = violations[i].version + 1

C24_ForwardChain ==
  /\ [](NoVersionReuse /\ \A i \in DOMAIN violations : ForwardLink(i))
  /\ [][\A i \in DOMAIN violations :
          violations[i].supersededBy # 0
            => violations'[i].supersededBy = violations[i].supersededBy]_vars

(***************************************************************************)
(* C25: updateViolation (createNewVersion) and deleteViolation             *)
(* (softDelete) leave every issued citation as it was: the lines with      *)
(* their violation reference, code, fine and offense ordinal, and the      *)
(* total.                                                                  *)
(***************************************************************************)
IssuedPart(c) == [violations |-> c.violations, totalAmount |-> c.totalAmount]

GroupOffenses(d, g) ==
  {i \in DOMAIN citations :
     /\ citations[i].driverId = d
     /\ ~citations[i].isVoid
     /\ citations[i].status \in CountedStatuses
     /\ \E j \in DOMAIN citations[i].violations :
          violations[citations[i].violations[j].violationId].violationGroupId = g}

C26_CountsAcrossVersions ==
  [][\A id \in DOMAIN violations :
       (/\ createCitation("d1", "PRIVATE", {id}, NoDate)
        /\ last'.code = 201
        /\ violations[id].fineStructure = "PROGRESSIVE")
         => Line(citations'[Len(citations')], id).offenseCount =
              Cardinality(GroupOffenses("d1", violations[id].violationGroupId)) + 1]_vars

(***************************************************************************)
(* C27: a citation is CONTESTED exactly when a contest for it is open      *)
(* (SUBMITTED or UNDER_REVIEW).                                            *)
(***************************************************************************)
C27_ContestedIffOpenContest ==
  \A id \in DOMAIN citations :
    citations[id].status = "CONTESTED" <=> HasOpenContest(id)

TerminalStatus == {"APPROVED", "REJECTED", "WITHDRAWN"}

TerminalEntries(contest) ==
  {n \in DOMAIN contest.statusHistory : contest.statusHistory[n].status \in TerminalStatus}

Quiescent == \A p \in Callers : calls[p] = Idle

C29_OneTransitionWins ==
  Quiescent =>
    \A k \in DOMAIN contests :
      contests[k].status \in TerminalStatus
        => /\ Cardinality(TerminalEntries(contests[k])) = 1
           /\ citations[contests[k].citationId].status =
                IF contests[k].status = "APPROVED" THEN "DISMISSED"
                ELSE StatusAfterDueCheck(
                       RevertedStatus(citations[contests[k].citationId]),
                       citations[contests[k].citationId].dueDate, now)

(***************************************************************************)
(* C30: a contest and its citation change as one unit.  Once every         *)
(* request has ended, whether answered or stopped between its writes, no   *)
(* contest is APPROVED beside a citation that is still CONTESTED, and no   *)
(* contest is SUBMITTED beside a citation that was not moved to CONTESTED. *)
(***************************************************************************)
C30_ContestAndCitationAsOne ==
  Quiescent =>
    \A k \in DOMAIN contests :
      /\ contests[k].status = "APPROVED"
           => citations[contests[k].citationId].status # "CONTESTED"
      /\ contests[k].status = "SUBMITTED"
           => citations[contests[k].citationId].status = "CONTESTED"

====
